---------------------------- MODULE Spec2Model ----------------------------
(***************************************************************************)
(* A model of pubmed_pharma_papers: the affiliation classifier, the record *)
(* parser (parser.py), the output writer (utils.py), the API client        *)
(* (api.py) and the run orchestration of cli.main (cli.py).                *)
(*                                                                         *)
(* Python strings are TLA+ strings.  A dict is a function whose domain is  *)
(* the set of its keys, a list is a sequence.  A value that has the wrong  *)
(* shape for its place (not a mapping where a mapping is expected) is the  *)
(* marker NotADict.                                                        *)
(***************************************************************************)
EXTENDS Integers, Sequences, FiniteSets, TLC

VARIABLES
    affiliation,    \* SpecClassify: the affiliation string under test
    verdict,        \* SpecClassify: << >>, or <<the classifier's result>>
    article,        \* SpecDate, SpecAuthors, SpecParse: the record handed to the parser
    pub_date,       \* SpecDate: "none", or extract_publication_date's result
    hash_seed,      \* the str hash seed (PYTHONHASHSEED) of the running process
    authors_info,   \* SpecAuthors: << >>, or <<extract_authors_info's result>>
    row,            \* SpecParse: << >>, or <<parse_paper's row>>
    row_again,      \* SpecParse: << >>, or <<the row of a second parse of the record>>
    pc,             \* Spec: position of cli.main
    debug,          \* Spec: args.debug
    filename,       \* Spec: args.file ("" when absent)
    pmids,          \* Spec: result of api.search_papers
    papers_data,    \* Spec: result of api.fetch_papers_batch
    parsed_papers,  \* Spec: the list cli.main builds
    loop_i,         \* Spec: index of the next record of the loop at line 97
    handed,         \* Spec: << >>, or <<the list handed to save_to_csv>>
    out_file,       \* Spec: whether args.file exists, and the CSV rows in it
    stdout,         \* Spec: the CSV rows printed to standard output
    exit_status,    \* Spec: -1 while running, else the process exit status
    calls           \* Spec: the network calls made so far, in order, each with
                    \* the Entrez function and its term or id argument

classVars == <<affiliation, verdict>>
parseVars == <<article, pub_date, hash_seed, authors_info, row, row_again>>
runVars == <<pc, debug, filename, pmids, papers_data, parsed_papers, loop_i,
             handed, out_file, stdout, exit_status, calls>>
vars == <<classVars, parseVars, runVars>>

-----------------------------------------------------------------------------
(* Strings: str.lower, the `in` substring test, re.search with \b.          *)

UpperLetters == "ABCDEFGHIJKLMNOPQRSTUVWXYZ"
LowerLetters == "abcdefghijklmnopqrstuvwxyz"
Digits == "0123456789"

CharsOf(s) == {SubSeq(s, i, i) : i \in 1..Len(s)}

\* \w of a str pattern: letters, digits and the underscore
WordChars == CharsOf(UpperLetters) \cup CharsOf(LowerLetters) \cup CharsOf(Digits) \cup {"_"}

LowerMap == [c \in CharsOf(UpperLetters) |->
               LET i == CHOOSE k \in 1..26 : SubSeq(UpperLetters, k, k) = c
               IN SubSeq(LowerLetters, i, i)]

LowerChar(c) == IF c \in DOMAIN LowerMap THEN LowerMap[c] ELSE c

RECURSIVE str_lower(_)
str_lower(s) ==
    IF s = "" THEN ""
    ELSE LowerChar(SubSeq(s, 1, 1)) \o str_lower(SubSeq(s, 2, Len(s)))

\* sub in s
Contains(s, sub) ==
    \E i \in 1..(Len(s) - Len(sub) + 1) : SubSeq(s, i, i + Len(sub) - 1) = sub

\* whether the character at position i of s exists and is a word character
IsWordAt(s, i) == i >= 1 /\ i <= Len(s) /\ SubSeq(s, i, i) \in WordChars

\* \b between positions i and i+1 of s (i = 0 is the start, i = Len(s) the end)
WordBoundary(s, i) == IsWordAt(s, i) # IsWordAt(s, i + 1)

\* A pattern is a literal, optionally anchored by \b on either side.
B(lit) == [lead |-> TRUE, lit |-> lit, trail |-> TRUE]
L(lit) == [lead |-> FALSE, lit |-> lit, trail |-> FALSE]

\* re.search(pattern, s) is not None
re_search(p, s) ==
    \E i \in 1..(Len(s) - Len(p.lit) + 1) :
        /\ SubSeq(s, i, i + Len(p.lit) - 1) = p.lit
        /\ p.lead => WordBoundary(s, i - 1)
        /\ p.trail => WordBoundary(s, i + Len(p.lit) - 1)

-----------------------------------------------------------------------------
(* parser.is_company_affiliation                                           *)

\* "university" is misspelt in the exclusion list.
strong_academic_typo ==
    << B("univeristy"), B("college"), B("school"),
       B("institute"), B("academy"), B("hospital") >>

strong_academic ==
    << B("university"), B("college"), B("school"),
       B("institute"), B("academy"), B("hospital") >>

strong_company ==
    << B("inc"), B("corp"), B("llc"), B("ltd"), B("limited"),
       B("gmbh"), B("co"), B("company"), B("pharma"), B("biotech") >>

company_names ==
    << "novartis", "pfizer", "merck", "roche", "sanofi", "astrazeneca",
       "johnson & johnson", "abbvie", "gilead", "amgen", "gsk", "bayer",
       "bristol-myers", "lilly", "boehringer", "takeda", "novo nordisk",
       "biogen", "celgene", "regeneron", "vertex", "alexion", "incyte",
       "janssen", "moderna", "biontech", "curevac", "genentech" >>

weak_company ==
    << L("therapeutics"), L("biosciences"), L("pharmaceuticals"), L("biopharma"),
       L("laboratories"), L("diagnostics"), L("technologies"), L("research center"),
       L("r&d"), L("research and development") >>

\* for pattern in patterns: if re.search(pattern, s): return (found)
AnySearch(patterns, s) == \E k \in 1..Len(patterns) : re_search(patterns[k], s)

\* for company in company_names: if company in s: return True
AnyContained(names, s) == \E k \in 1..Len(names) : Contains(s, names[k])

\* The weak-company loop is tried before the academic exclusion.
is_company_affiliation_weak_first(aff) ==
    IF aff = "" THEN FALSE
    ELSE LET affiliation_lower == str_lower(aff) IN
         IF AnySearch(weak_company, affiliation_lower) THEN TRUE
         ELSE IF AnySearch(strong_academic, affiliation_lower) THEN FALSE
         ELSE IF AnySearch(strong_company, affiliation_lower) THEN TRUE
         ELSE AnyContained(company_names, affiliation_lower)

is_company_affiliation(aff) ==
    IF aff = "" THEN FALSE
    ELSE LET affiliation_lower == str_lower(aff) IN
         IF AnySearch(strong_academic, affiliation_lower) THEN FALSE
         ELSE IF AnySearch(strong_company, affiliation_lower) THEN TRUE
         ELSE IF AnyContained(company_names, affiliation_lower) THEN TRUE
         ELSE IF AnySearch(weak_company, affiliation_lower) THEN TRUE
         ELSE FALSE

-----------------------------------------------------------------------------
(* Python values.  Bio.Entrez yields str leaves, so Year, Month, Day,      *)
(* MedlineDate, names and affiliations are strings; the wrong shape        *)
(* modelled is a non-mapping (an int) where a mapping is expected.         *)

EmptyDict == << >>
NotADict == [py_int |-> 7]

\* isinstance(v, dict), for a value in a place where a mapping is expected
IsDict(v) == "py_int" \notin DOMAIN v

\* k in d
Has(d, k) == k \in DOMAIN d

\* d.get(k, {})
GetDict(d, k) == IF Has(d, k) THEN d[k] ELSE EmptyDict

\* d.get(k, default) for a str default
GetStr(d, k, default) == IF Has(d, k) THEN d[k] ELSE default

\* bool(d) of a value in a mapping's place: an empty dict is falsy, an int 7 truthy
Truthy(d) == DOMAIN d # {}

\* str.isdigit
isdigit(s) == s # "" /\ \A i \in 1..Len(s) : SubSeq(s, i, i) \in CharsOf(Digits)

\* str.zfill(2): left-pad with zeros, after a leading sign
zfill2(s) ==
    IF Len(s) >= 2 THEN s
    ELSE IF s = "" THEN "00"
    ELSE IF s \in {"+", "-"} THEN s \o "0"
    ELSE "0" \o s

\* position of the first "-" of s, or 0
FirstDash(s) ==
    IF Contains(s, "-")
    THEN CHOOSE i \in 1..Len(s) :
            /\ SubSeq(s, i, i) = "-"
            /\ \A k \in 1..(i - 1) : SubSeq(s, k, k) # "-"
    ELSE 0

\* s.split("-")[1], for s containing a "-"
SplitDashPart1(s) ==
    LET rest == SubSeq(s, FirstDash(s) + 1, Len(s))
        j == FirstDash(rest)
    IN IF j = 0 THEN rest ELSE SubSeq(rest, 1, j - 1)

-----------------------------------------------------------------------------
(* parser.extract_publication_date.  pub_date None is "", and the local    *)
(* `month` is << >> while unbound and <<value>> once assigned.             *)

\* f"{year}-{month}-{day}" if year else None
FormatDate(year, month, day) ==
    IF year # "" THEN year \o "-" \o month \o "-" \o day ELSE ""

\* year, month, day of a date mapping, month and day zero-filled (lines 54-62)
DateOf(date_info) ==
    LET year == GetStr(date_info, "Year", "")
        month == zfill2(GetStr(date_info, "Month", "01"))
        day == zfill2(GetStr(date_info, "Day", "01"))
    IN [raised |-> FALSE, pub_date |-> FormatDate(year, month, day), month |-> <<month>>]

NoDate == [raised |-> FALSE, pub_date |-> "", month |-> << >>]
Raised == [raised |-> TRUE, pub_date |-> "", month |-> << >>]

\* lines 50-64: the article-level date
ArticleDateStep(article_data) ==
    IF Has(article_data, "ArticleDate") /\ Len(article_data["ArticleDate"]) > 0
    THEN LET date_info == article_data["ArticleDate"][1]
         IN IF ~IsDict(date_info)
            THEN NoDate                   \* AttributeError, caught at line 63
            ELSE DateOf(date_info)
    ELSE NoDate

\* lines 74-87: year and month of a journal PubDate; `before` is the month
\* binding left by the article-level step
PubDateYearMonth(date_info, before) ==
    LET year == GetStr(date_info, "Year", "") IN
    IF Has(date_info, "Month")
    THEN [year |-> year, month |-> <<GetStr(date_info, "Month", "01")>>]
    ELSE IF Has(date_info, "MedlineDate")
    THEN LET medline_date == GetStr(date_info, "MedlineDate", "") IN
         IF medline_date # "" /\ Len(medline_date) >= 4
         THEN [year |-> SubSeq(medline_date, 1, 4),
               month |-> IF /\ Len(medline_date) > 5
                            /\ Contains(medline_date, "-")
                            /\ isdigit(SplitDashPart1(medline_date))
                         THEN <<zfill2(SplitDashPart1(medline_date))>>
                         ELSE <<"01">>]
         ELSE [year |-> year, month |-> before]     \* month is not assigned
    ELSE [year |-> year, month |-> <<"01">>]

\* lines 66-97: the journal-level date
JournalStep(article_data, a) ==
    IF a.pub_date = "" /\ Has(article_data, "Journal")
    THEN LET journal == article_data["Journal"] IN
         IF ~IsDict(journal) THEN Raised      \* TypeError at line 68, outside the try
         ELSE IF ~Has(journal, "PubDate") THEN a
         ELSE LET date_info == journal["PubDate"] IN
              IF ~IsDict(date_info) THEN a    \* AttributeError, caught at line 96
              ELSE LET ym == PubDateYearMonth(date_info, a.month) IN
                   IF ym.month = << >>
                   THEN Raised                \* UnboundLocalError at line 92, not caught at 96
                   ELSE LET month == zfill2(ym.month[1])
                            day == zfill2(GetStr(date_info, "Day", "01"))
                        IN [raised |-> FALSE,
                            pub_date |-> FormatDate(ym.year, month, day),
                            month |-> <<month>>]
    ELSE a

\* lines 99-114: the record-level creation date
DateCreatedStep(medline_citation, j) ==
    IF j.pub_date = ""
    THEN LET date_created == GetDict(medline_citation, "DateCreated") IN
         IF ~IsDict(date_created) THEN j      \* AttributeError, caught at line 113
         ELSE IF Truthy(date_created) THEN DateOf(date_created)
         ELSE j
    ELSE j

extract_publication_date(art) ==
    LET medline_citation == GetDict(art, "MedlineCitation") IN
    IF ~IsDict(medline_citation) THEN "Unknown"     \* AttributeError -> line 118
    ELSE LET article_data == GetDict(medline_citation, "Article") IN
         IF ~IsDict(article_data) THEN "Unknown"    \* TypeError at line 51 -> line 118
         ELSE LET a == ArticleDateStep(article_data)
                  j == JournalStep(article_data, a)
              IN IF j.raised THEN "Unknown"         \* -> line 118
                 ELSE LET c == DateCreatedStep(medline_citation, j)
                      IN IF c.pub_date # "" THEN c.pub_date ELSE "Unknown"

-----------------------------------------------------------------------------
(* parser.extract_title, parser.is_academic_email                          *)

extract_title(art) ==
    LET medline_citation == GetDict(art, "MedlineCitation") IN
    IF ~IsDict(medline_citation) THEN "Unknown"        \* AttributeError -> line 134
    ELSE LET article_data == GetDict(medline_citation, "Article") IN
         IF ~IsDict(article_data) THEN "Unknown"       \* AttributeError -> line 134
         ELSE GetStr(article_data, "ArticleTitle", "Unknown")

ACADEMIC_EMAIL_DOMAINS ==
    << ".edu", ".ac.", "university", "college", "institute", "school", "gov" >>

is_academic_email(email) ==
    LET email_lower == str_lower(email)
    IN AnyContained(ACADEMIC_EMAIL_DOMAINS, email_lower)

-----------------------------------------------------------------------------
(* parser.extract_authors_info                                             *)

\* str.strip(", "): leading and trailing commas and spaces removed
RECURSIVE lstrip(_)
lstrip(s) ==
    IF s # "" /\ SubSeq(s, 1, 1) \in {",", " "} THEN lstrip(SubSeq(s, 2, Len(s))) ELSE s

RECURSIVE rstrip(_)
rstrip(s) ==
    IF s # "" /\ SubSeq(s, Len(s), Len(s)) \in {",", " "}
    THEN rstrip(SubSeq(s, 1, Len(s) - 1)) ELSE s

strip(s) == rstrip(lstrip(s))

\* "; ".join(list)
RECURSIVE join(_)
join(list) ==
    IF list = << >> THEN ""
    ELSE IF Len(list) = 1 THEN list[1]
    ELSE list[1] \o "; " \o join(Tail(list))

\* some enumeration of a set, the same for the same set
\* ",".join(list)
RECURSIVE comma_join(_)
comma_join(list) ==
    IF list = << >> THEN ""
    ELSE IF Len(list) = 1 THEN list[1]
    ELSE list[1] \o "," \o comma_join(Tail(list))

RECURSIVE Enumerate(_)
Enumerate(S) ==
    IF S = {} THEN << >>
    ELSE LET x == CHOOSE y \in S : TRUE IN <<x>> \o Enumerate(S \ {x})

\* list(a_set) of a set of str: the iteration order follows the hashes of the
\* elements, which depend on the hash seed of the process; the same set in the
\* same process lists in the same order.
list_of_set(S, seed) ==
    LET e == Enumerate(S)
        n == Len(e)
    IN IF n = 0 THEN << >>
       ELSE [i \in 1..n |-> e[((i - 1 + seed) % n) + 1]]

\* lines 258-266 for one author: the company-classified affiliation strings
CompanyAffiliationsOf(author) ==
    LET affiliations == IF Has(author, "AffiliationInfo") THEN author["AffiliationInfo"] ELSE << >>
    IN {GetStr(affiliations[k], "Affiliation", "") : k \in
            {k \in 1..Len(affiliations) :
                /\ IsDict(affiliations[k])
                /\ GetStr(affiliations[k], "Affiliation", "") # ""
                /\ is_company_affiliation(GetStr(affiliations[k], "Affiliation", ""))}}

\* lines 269-273: author["Identifier"] is <<"list", v1, ...>> for a list and
\* <<"str", v>> for a single value, which the code wraps in a list
IdentifiersOf(author) == IF Has(author, "Identifier") THEN Tail(author["Identifier"]) ELSE << >>

\* lines 274-279: the identifier values that qualify as a contact email
ContactEmailsOf(author) ==
    SelectSeq(IdentifiersOf(author), LAMBDA id : Contains(id, "@") /\ ~is_academic_email(id))

\* the body of the loop over authors (lines 240-282)
AuthorStep(acc, author) ==
    IF ~IsDict(author) THEN acc                               \* line 242
    ELSE LET last_name == GetStr(author, "LastName", "")
             fore_name == GetStr(author, "ForeName", "")
         IN IF last_name = "" /\ fore_name = "" THEN acc      \* line 249
            ELSE LET author_name == strip(last_name \o ", " \o fore_name)
                     affs == CompanyAffiliationsOf(author)
                     emails == ContactEmailsOf(author)
                     is_company_author == affs # {} \/ emails # << >>
                 IN [non_academic_authors |->
                        IF is_company_author /\ author_name # ""
                        THEN Append(acc.non_academic_authors, author_name)
                        ELSE acc.non_academic_authors,
                     company_affiliations |-> acc.company_affiliations \cup affs,
                     corresponding_email |->
                        IF emails # << >> THEN emails[Len(emails)]
                        ELSE acc.corresponding_email]

RECURSIVE AuthorLoop(_, _)
AuthorLoop(acc, authors) ==
    IF authors = << >> THEN acc
    ELSE AuthorLoop(AuthorStep(acc, Head(authors)), Tail(authors))

NoAuthorsInfo ==
    [non_academic_authors |-> << >>, company_affiliations |-> << >>,
     corresponding_email |-> ""]

extract_authors_info(art, seed) ==
    LET medline_citation == GetDict(art, "MedlineCitation") IN
    IF ~IsDict(medline_citation) THEN NoAuthorsInfo    \* AttributeError -> line 286
    ELSE LET article_data == GetDict(medline_citation, "Article") IN
         IF ~IsDict(article_data) THEN NoAuthorsInfo   \* AttributeError -> line 286
         ELSE LET authors == IF Has(article_data, "AuthorList")
                             THEN article_data["AuthorList"] ELSE << >>
                  acc == AuthorLoop([non_academic_authors |-> << >>,
                                     company_affiliations |-> {},
                                     corresponding_email |-> ""], authors)
              IN [non_academic_authors |-> acc.non_academic_authors,
                  company_affiliations |-> list_of_set(acc.company_affiliations, seed),
                  corresponding_email |-> acc.corresponding_email]

-----------------------------------------------------------------------------
(* parser.parse_paper                                                      *)

Columns ==
    << "PubmedID", "Title", "Publication Date", "Non-academic Author(s)",
       "Company Affiliation(s)", "Corresponding Author Email" >>

\* the row built at lines 306-313
RowOf(pmid, title, publication_date, info) ==
    ("PubmedID" :> pmid) @@ ("Title" :> title)
    @@ ("Publication Date" :> publication_date)
    @@ ("Non-academic Author(s)" :> join(info.non_academic_authors))
    @@ ("Company Affiliation(s)" :> join(info.company_affiliations))
    @@ ("Corresponding Author Email" :> info.corresponding_email)

parse_paper(art, seed) ==
    LET medline_citation == GetDict(art, "MedlineCitation") IN
    IF ~IsDict(medline_citation)
    THEN EmptyDict                        \* AttributeError at line 301 -> return {}
    ELSE RowOf(GetStr(medline_citation, "PMID", "Unknown"),
               extract_title(art),
               extract_publication_date(art),
               extract_authors_info(art, seed))

-----------------------------------------------------------------------------
(* SpecClassify: affiliation strings are built from fragments and handed   *)
(* to the classifier.                                                      *)

MaxTokens == 3

AffiliationTokens ==
    { "University", "inter", "s", " ", "_", "Inc", "Pfizer",
      "Pharma", "ceuticals", "Laboratories" }

Idle == /\ article = << >> /\ pub_date = "none" /\ hash_seed = 0
        /\ authors_info = << >> /\ row = << >> /\ row_again = << >>

NoFile == [exists |-> FALSE, rows |-> << >>]

RunIdle == /\ pc = "off" /\ debug = FALSE /\ filename = "" /\ pmids = << >>
           /\ papers_data = << >> /\ parsed_papers = << >> /\ loop_i = 1
           /\ handed = << >> /\ out_file = NoFile /\ stdout = << >>
           /\ exit_status = -1 /\ calls = << >>

ClassIdle == affiliation = <<"", 0>> /\ verdict = << >>

InitClassify == /\ ClassIdle
                /\ Idle /\ RunIdle

\* one more fragment of text; affiliation[2] counts the fragments
AppendToken ==
    /\ affiliation[2] < MaxTokens
    /\ \E t \in AffiliationTokens : affiliation' = <<affiliation[1] \o t, affiliation[2] + 1>>
    /\ verdict' = << >>
    /\ UNCHANGED <<parseVars, runVars>>

Classify ==
    /\ verdict = << >>
    /\ verdict' = <<is_company_affiliation(affiliation[1])>>
    /\ UNCHANGED <<affiliation, parseVars, runVars>>

NextClassify == AppendToken \/ Classify

SpecClassify == InitClassify /\ [][NextClassify]_vars

-----------------------------------------------------------------------------
(* SpecDate: records with every combination of the three date sources are  *)
(* handed to extract_publication_date.                                     *)

\* the mappings with key k bound to a value of vals, and the one without k
Opt(k, vals) == {EmptyDict} \cup {k :> v : v \in vals}

DateDicts ==
    {y @@ m @@ d : y \in Opt("Year", {"2020", "99"}),
                   m \in Opt("Month", {"3", "Jan"}),
                   d \in Opt("Day", {"7"})}

PubDates ==
    {dd @@ md : dd \in DateDicts,
                md \in Opt("MedlineDate", {"199", "1998-12", "Spring 2000", "2000 Nov-Dec"})}

ArticleDateParts ==
    Opt("ArticleDate", {<< >>, <<NotADict>>} \cup {<<dd>> : dd \in DateDicts})

JournalParts ==
    Opt("Journal", {NotADict, EmptyDict} \cup Opt("PubDate", {NotADict} \cup PubDates))

DateCreatedParts == Opt("DateCreated", {NotADict} \cup DateDicts)

DateArticles ==
    {"MedlineCitation" :> (("Article" :> (ad @@ jn)) @@ dc) :
        ad \in ArticleDateParts, jn \in JournalParts, dc \in DateCreatedParts}
    \cup {EmptyDict, "MedlineCitation" :> NotADict,
          "MedlineCitation" :> ("Article" :> NotADict)}

InitDate == /\ article \in DateArticles
            /\ pub_date = "none" /\ hash_seed = 0
            /\ authors_info = << >> /\ row = << >> /\ row_again = << >>
            /\ ClassIdle /\ RunIdle

ExtractDate ==
    /\ pub_date = "none"
    /\ pub_date' = extract_publication_date(article)
    /\ UNCHANGED <<article, hash_seed, authors_info, row, row_again, classVars, runVars>>

NextDate == ExtractDate

SpecDate == InitDate /\ [][NextDate]_vars

-----------------------------------------------------------------------------
(* SpecAuthors: author lists are handed to extract_authors_info.           *)

MaxAuthors == 2
MaxAffiliations == 2

HashSeeds == {0, 1}

\* the sequences over S of length at most n
RECURSIVE SeqsUpTo(_, _)
SeqsUpTo(S, n) ==
    IF n = 0 THEN {<< >>}
    ELSE LET shorter == SeqsUpTo(S, n - 1)
         IN shorter \cup {Append(q, x) : q \in {q \in shorter : Len(q) = n - 1}, x \in S}

NameParts ==
    {EmptyDict, "LastName" :> " ", "LastName" :> "Smith", "ForeName" :> "Jo",
     ("LastName" :> "Smith") @@ ("ForeName" :> "Jo")}

AffiliationInfos ==
    {NotADict} \cup {"Affiliation" :> a :
        a \in {"Novartis Pharma AG", "Harvard Medical School", "Pfizer Inc"}}

IdentifierParts ==
    Opt("Identifier", {<<"str", "jdoe@stanford.edu">>,
                       <<"list", "jdoe@pfizer.com", "0000-0002-1825-0097">>})

Authors ==
    {NotADict} \cup
    {n @@ ("AffiliationInfo" :> af) @@ id :
        n \in NameParts, af \in SeqsUpTo(AffiliationInfos, MaxAffiliations),
        id \in IdentifierParts}

ArticleWithAuthors(authors) ==
    "MedlineCitation" :> (("PMID" :> "12345") @@ ("Article" :> ("AuthorList" :> authors)))

InitAuthors ==
    /\ article \in {ArticleWithAuthors(a) : a \in SeqsUpTo(Authors, MaxAuthors)}
    /\ hash_seed \in HashSeeds
    /\ pub_date = "none" /\ authors_info = << >> /\ row = << >> /\ row_again = << >>
    /\ ClassIdle /\ RunIdle

ExtractAuthors ==
    /\ authors_info = << >>
    /\ authors_info' = <<extract_authors_info(article, hash_seed)>>
    /\ UNCHANGED <<article, pub_date, hash_seed, row, row_again, classVars, runVars>>

NextAuthors == ExtractAuthors

SpecAuthors == InitAuthors /\ [][NextAuthors]_vars

-----------------------------------------------------------------------------
(* SpecParse: whole records are handed to parse_paper, a second time in    *)
(* the same process (the fallback loop of cli.main) or in a later run.     *)

ParseMaxAuthors == 1

ArticleParts ==
    {t @@ d @@ al :
        t \in Opt("ArticleTitle", {"A trial"}),
        d \in Opt("Journal", {"PubDate" :> (("Year" :> "2020") @@ ("Month" :> "Jan"))}),
        al \in Opt("AuthorList", SeqsUpTo(Authors, ParseMaxAuthors))}

ParseArticles ==
    {EmptyDict, "MedlineCitation" :> NotADict}
    \cup {"MedlineCitation" :> (id @@ ar) :
            id \in Opt("PMID", {"12345"}),
            ar \in Opt("Article", {NotADict} \cup ArticleParts)}

InitParse ==
    /\ article \in ParseArticles
    /\ hash_seed \in HashSeeds
    /\ pub_date = "none" /\ authors_info = << >> /\ row = << >> /\ row_again = << >>
    /\ ClassIdle /\ RunIdle

Parse ==
    /\ row = << >>
    /\ row' = <<parse_paper(article, hash_seed)>>
    /\ UNCHANGED <<article, pub_date, hash_seed, authors_info, row_again, classVars, runVars>>

\* a later run of the program is a new process, with a hash seed of its own
NewProcess ==
    /\ row # << >> /\ row_again = << >>
    /\ \E seed \in HashSeeds : hash_seed' = seed
    /\ UNCHANGED <<article, pub_date, authors_info, row, row_again, classVars, runVars>>

ParseAgain ==
    /\ row # << >> /\ row_again = << >>
    /\ row_again' = <<parse_paper(article, hash_seed)>>
    /\ UNCHANGED <<article, pub_date, hash_seed, authors_info, row, classVars, runVars>>

NextParse == Parse \/ NewProcess \/ ParseAgain

SpecParse == InitParse /\ [][NextParse]_vars

-----------------------------------------------------------------------------
(* utils.save_to_csv: the rows of the CSV that pandas renders               *)

\* line 36: the fixed columns that occur in some row, in the fixed order
existing_columns(papers) ==
    SelectSeq(Columns, LAMBDA col : \E k \in 1..Len(papers) : col \in DOMAIN papers[k])

\* pd.DataFrame(papers)[existing_columns].to_csv(index=False): one data row
\* per paper, a cell empty where the paper lacks the column
csv_rows(papers) ==
    [k \in 1..Len(papers) |->
        [c \in 1..Len(existing_columns(papers)) |->
            IF existing_columns(papers)[c] \in DOMAIN papers[k]
            THEN papers[k][existing_columns(papers)[c]] ELSE ""]]

-----------------------------------------------------------------------------
(* Spec: one run of cli.main                                               *)

MaxRecords == 2

PmidPool == << "31452104", "29474590", "27004590", "25693012" >>

\* the records a fetch may return
CompanyRecord ==
    "MedlineCitation" :> (("PMID" :> "31452104") @@ ("Article" :>
        (("ArticleTitle" :> "A trial") @@ ("AuthorList" :>
            << ("LastName" :> "Smith") @@ ("ForeName" :> "Jo") @@ ("AffiliationInfo" :>
                 << "Affiliation" :> "Novartis Pharma AG", "Affiliation" :> "Pfizer Inc" >>),
               ("LastName" :> "Lee") @@ ("AffiliationInfo" :>
                 << "Affiliation" :> "Harvard Medical School" >>) >>))))

AcademicRecord ==
    "MedlineCitation" :> (("PMID" :> "29474590") @@ ("Article" :>
        (("ArticleTitle" :> "A cohort") @@ ("AuthorList" :>
            << ("LastName" :> "Lee") @@ ("AffiliationInfo" :>
                 << "Affiliation" :> "Harvard Medical School" >>) >>))))

\* an author whose only name part is blank, with two company affiliations
BlankNameRecord ==
    "MedlineCitation" :> (("PMID" :> "27004590") @@ ("Article" :>
        ("AuthorList" :>
            << ("LastName" :> " ") @@ ("AffiliationInfo" :>
                 << "Affiliation" :> "Novartis Pharma AG", "Affiliation" :> "Pfizer Inc" >>) >>)))

\* an entry of the author list that is not a mapping
OddAuthorRecord ==
    "MedlineCitation" :> (("PMID" :> "25693012") @@ ("Article" :>
        ("AuthorList" :>
            << NotADict,
               ("LastName" :> "Khan") @@ ("Identifier" :> <<"str", "khan@gsk.com">>) >>)))

MalformedRecord == "MedlineCitation" :> NotADict

RunRecords ==
    {CompanyRecord, AcademicRecord, BlankNameRecord, OddAuthorRecord, MalformedRecord}

Init ==
    /\ pc = "search"
    /\ debug \in BOOLEAN
    /\ filename \in {"", "out.csv"}
    /\ hash_seed \in HashSeeds
    /\ pmids = << >> /\ papers_data = << >> /\ parsed_papers = << >> /\ loop_i = 1
    /\ handed = << >> /\ out_file = NoFile /\ stdout = << >>
    /\ exit_status = -1 /\ calls = << >>
    /\ article = << >> /\ pub_date = "none" /\ authors_info = << >>
    /\ row = << >> /\ row_again = << >>
    /\ ClassIdle

Untouched == UNCHANGED <<classVars, parseVars, debug, filename>>

\* cli.py lines 133-138: the exception is logged and the process exits with 1
ExitOnException ==
    /\ pc' = "done"
    /\ exit_status' = 1

\* Entrez.esearch(db="pubmed", term=query, ...) at api.py line 62
EsearchCall == [fn |-> "esearch", arg |-> "query"]

\* Entrez.efetch(db="pubmed", id=",".join(pmids), ...) at api.py line 127
EfetchCall(ids) == [fn |-> "efetch", arg |-> comma_join(ids)]

\* api.search_papers returns the IdList of the search (cli.py line 83); an
\* empty list ends the run at line 87
Search ==
    /\ pc = "search"
    /\ calls' = Append(calls, EsearchCall)
    /\ \E n \in 0..MaxRecords :
          /\ n <= Len(PmidPool)
          /\ pmids' = SubSeq(PmidPool, 1, n)
          /\ IF n = 0
             THEN pc' = "done" /\ exit_status' = 0
             ELSE pc' = "fetch" /\ UNCHANGED exit_status
    /\ UNCHANGED <<papers_data, parsed_papers, loop_i, handed, out_file, stdout>>
    /\ Untouched

\* api.search_papers logs and re-raises (api.py lines 77-79)
SearchRaises ==
    /\ pc = "search"
    /\ calls' = Append(calls, EsearchCall)
    /\ ExitOnException
    /\ UNCHANGED <<pmids, papers_data, parsed_papers, loop_i, handed, out_file, stdout>>
    /\ Untouched

\* api.fetch_papers_batch: one efetch for all ids; the reply holds a record
\* for each id the database knows (cli.py line 92)
Fetch ==
    /\ pc = "fetch"
    /\ calls' = Append(calls, EfetchCall(pmids))
    /\ \E papers \in SeqsUpTo(RunRecords, Len(pmids)) : papers_data' = papers
    /\ pc' = "loop"
    /\ UNCHANGED <<pmids, parsed_papers, loop_i, handed, out_file, stdout, exit_status>>
    /\ Untouched

\* api.fetch_papers_batch logs and re-raises (api.py lines 138-140)
FetchRaises ==
    /\ pc = "fetch"
    /\ calls' = Append(calls, EfetchCall(pmids))
    /\ ExitOnException
    /\ UNCHANGED <<pmids, papers_data, parsed_papers, loop_i, handed, out_file, stdout>>
    /\ Untouched

\* the AuthorList the record's mappings lead to (cli.py lines 100-101), << >>
\* when they lead to none
AuthorListOf(art) ==
    LET medline_citation == GetDict(art, "MedlineCitation") IN
    IF ~IsDict(medline_citation) THEN << >>
    ELSE LET article_data == GetDict(medline_citation, "Article") IN
         IF ~IsDict(article_data) \/ ~Has(article_data, "AuthorList") THEN << >>
         ELSE article_data["AuthorList"]

\* cli.py lines 99-110: with args.debug the loop reads the record itself,
\* with .get on every level and no isinstance test
DebugBlockRaises(paper) ==
    LET medline_citation == GetDict(paper, "MedlineCitation") IN
    \/ ~IsDict(medline_citation)
    \/ ~IsDict(GetDict(medline_citation, "Article"))
    \/ \E a \in 1..Len(AuthorListOf(paper)) :
          \/ ~IsDict(AuthorListOf(paper)[a])
          \/ /\ Has(AuthorListOf(paper)[a], "AffiliationInfo")
             /\ \E k \in 1..Len(AuthorListOf(paper)[a]["AffiliationInfo"]) :
                   ~IsDict(AuthorListOf(paper)[a]["AffiliationInfo"][k])

\* dict.get(key) of a row is truthy
RowGetTruthy(parsed_paper, key) == key \in DOMAIN parsed_paper /\ parsed_paper[key] # ""

\* every parsed row is kept
KeepRowAlways(parsed_paper) == TRUE

\* cli.py line 115
KeepRow(parsed_paper) == RowGetTruthy(parsed_paper, "Non-academic Author(s)")

\* one turn of the loop at cli.py lines 97-116
ParseNext ==
    /\ pc = "loop" /\ loop_i <= Len(papers_data)
    /\ IF debug /\ DebugBlockRaises(papers_data[loop_i])
       THEN /\ ExitOnException
            /\ UNCHANGED <<parsed_papers, loop_i>>
       ELSE /\ LET parsed_paper == parse_paper(papers_data[loop_i], hash_seed)
               IN parsed_papers' = IF KeepRow(parsed_paper)
                                   THEN Append(parsed_papers, parsed_paper)
                                   ELSE parsed_papers
            /\ loop_i' = loop_i + 1
            /\ UNCHANGED <<pc, exit_status>>
    /\ UNCHANGED <<pmids, papers_data, handed, out_file, stdout, calls>>
    /\ Untouched

\* the fallback fetches the records again before it parses them
FallbackRefetches ==
    /\ pc = "loop" /\ loop_i > Len(papers_data)
    /\ parsed_papers = << >> /\ papers_data # << >>
    /\ calls' = Append(calls, EfetchCall(pmids))
    /\ parsed_papers' = [k \in 1..Len(papers_data) |-> parse_paper(papers_data[k], hash_seed)]
    /\ pc' = "save"
    /\ UNCHANGED <<pmids, papers_data, loop_i, handed, out_file, stdout, exit_status>>
    /\ Untouched

\* the fallback is left out
FallbackSkipped ==
    /\ pc = "loop" /\ loop_i > Len(papers_data)
    /\ parsed_papers = << >> /\ papers_data # << >>
    /\ pc' = "save"
    /\ UNCHANGED <<pmids, papers_data, parsed_papers, loop_i, handed, out_file, stdout,
                   exit_status, calls>>
    /\ Untouched

\* cli.py lines 118-122: nothing was kept, so every record is parsed again
\* and every row is kept
Fallback ==
    /\ pc = "loop" /\ loop_i > Len(papers_data)
    /\ parsed_papers = << >> /\ papers_data # << >>
    /\ parsed_papers' = [k \in 1..Len(papers_data) |-> parse_paper(papers_data[k], hash_seed)]
    /\ pc' = "save"
    /\ UNCHANGED <<pmids, papers_data, loop_i, handed, out_file, stdout, exit_status, calls>>
    /\ Untouched

\* cli.py line 118 is false
NoFallback ==
    /\ pc = "loop" /\ loop_i > Len(papers_data)
    /\ ~(parsed_papers = << >> /\ papers_data # << >>)
    /\ pc' = "save"
    /\ UNCHANGED <<pmids, papers_data, parsed_papers, loop_i, handed, out_file, stdout,
                   exit_status, calls>>
    /\ Untouched

\* save_to_csv with nothing to save returns at utils.py line 23
SaveNothing ==
    /\ pc = "save" /\ parsed_papers = << >>
    /\ handed' = <<parsed_papers>>
    /\ pc' = "done" /\ exit_status' = 0
    /\ UNCHANGED <<pmids, papers_data, parsed_papers, loop_i, out_file, stdout, calls>>
    /\ Untouched

\* utils.py line 45: the CSV is printed
SavePrint ==
    /\ pc = "save" /\ parsed_papers # << >> /\ filename = ""
    /\ handed' = <<parsed_papers>>
    /\ stdout' = csv_rows(parsed_papers)
    /\ pc' = "done" /\ exit_status' = 0
    /\ UNCHANGED <<pmids, papers_data, parsed_papers, loop_i, out_file, calls>>
    /\ Untouched

\* utils.py line 41: DataFrame.to_csv creates the file and writes the rows
SaveFile ==
    /\ pc = "save" /\ parsed_papers # << >> /\ filename # ""
    /\ handed' = <<parsed_papers>>
    /\ out_file' = [exists |-> TRUE, rows |-> csv_rows(parsed_papers)]
    /\ pc' = "done" /\ exit_status' = 0
    /\ UNCHANGED <<pmids, papers_data, parsed_papers, loop_i, stdout, calls>>
    /\ Untouched

\* utils.py line 41 raises OSError: either the file cannot be opened, and none
\* is created, or a write fails after it was created (the device is full),
\* and the file is left with the rows written so far; save_to_csv has no
\* handler and cli.main exits with 1
SaveFileRaises ==
    /\ pc = "save" /\ parsed_papers # << >> /\ filename # ""
    /\ handed' = <<parsed_papers>>
    /\ \/ out_file' = NoFile
       \/ \E n \in 0..(Len(parsed_papers) - 1) :
             out_file' = [exists |-> TRUE, rows |-> SubSeq(csv_rows(parsed_papers), 1, n)]
    /\ ExitOnException
    /\ UNCHANGED <<pmids, papers_data, parsed_papers, loop_i, stdout, calls>>
    /\ Untouched

Next ==
    \/ Search \/ SearchRaises
    \/ Fetch \/ FetchRaises
    \/ ParseNext
    \/ Fallback \/ NoFallback
    \/ SaveNothing \/ SavePrint \/ SaveFile \/ SaveFileRaises

Spec == Init /\ [][Next]_vars

-----------------------------------------------------------------------------
(* Claims about the classifier (SpecClassify)                               *)

\* The decision list of the design, stated on whole-word occurrences.
AcademicTerms == {"university", "college", "school", "institute", "academy", "hospital"}
CompanyTerms == {"inc", "corp", "llc", "ltd", "limited", "gmbh", "co", "company",
                 "pharma", "biotech"}
NamedCompanies == {company_names[k] : k \in 1..Len(company_names)}
WeakTerms == {weak_company[k].lit : k \in 1..Len(weak_company)}

\* term occurs in s with no word character directly before or after it
WholeWord(s, term) ==
    \E i \in 1..(Len(s) - Len(term) + 1) :
        /\ SubSeq(s, i, i + Len(term) - 1) = term
        /\ (i = 1 \/ SubSeq(s, i - 1, i - 1) \notin WordChars)
        /\ (i + Len(term) - 1 = Len(s)
              \/ SubSeq(s, i + Len(term), i + Len(term)) \notin WordChars)

HasAcademicWord(s) == \E t \in AcademicTerms : WholeWord(str_lower(s), t)
HasCompanyWord(s) == \E t \in CompanyTerms : WholeWord(str_lower(s), t)
HasNamedCompany(s) == \E t \in NamedCompanies : Contains(str_lower(s), t)
HasWeakTerm(s) == \E t \in WeakTerms : Contains(str_lower(s), t)

DecisionList(s) ==
    CASE s = "" -> FALSE
      [] s # "" /\ HasAcademicWord(s) -> FALSE
      [] s # "" /\ ~HasAcademicWord(s) /\ HasCompanyWord(s) -> TRUE
      [] s # "" /\ ~HasAcademicWord(s) /\ ~HasCompanyWord(s) /\ HasNamedCompany(s) -> TRUE
      [] s # "" /\ ~HasAcademicWord(s) /\ ~HasCompanyWord(s) /\ ~HasNamedCompany(s)
           /\ HasWeakTerm(s) -> TRUE
      [] OTHER -> FALSE

Classified == verdict # << >>

\* C3: is_company_affiliation returns what the ordered decision list of the
\* design returns (empty, strong academic word, strong company word, named
\* company, weak term, else false); a string with a strong academic word and
\* any company term is classified false.
C3_DecisionList ==
    Classified =>
        /\ verdict[1] = DecisionList(affiliation[1])
        /\ (HasAcademicWord(affiliation[1])
              /\ (HasCompanyWord(affiliation[1]) \/ HasNamedCompany(affiliation[1])
                    \/ HasWeakTerm(affiliation[1]))
            => verdict[1] = FALSE)

C3_Witness ==
    /\ Classified
    /\ HasAcademicWord(affiliation[1])
    /\ HasCompanyWord(affiliation[1])
    /\ verdict[1] = FALSE

\* "contains no strong company term and no named company", as substrings
NoCompanyTerm(s) ==
    /\ \A t \in CompanyTerms : ~Contains(str_lower(s), t)
    /\ ~HasNamedCompany(s)

\* C4 as stated: every affiliation that contains "university" as a substring
\* (any case) and no strong company term or named company is classified
\* false, weak company terms notwithstanding.
C4_SubstringUniversity ==
    (Classified /\ Contains(str_lower(affiliation[1]), "university")
       /\ NoCompanyTerm(affiliation[1]))
    => verdict[1] = FALSE

\* C4 amended: every affiliation in which "university" occurs as a whole
\* word (any case) and that contains no strong company term or named company
\* is classified false, weak company terms notwithstanding.
C4_WholeWordUniversity ==
    (Classified /\ WholeWord(str_lower(affiliation[1]), "university")
       /\ NoCompanyTerm(affiliation[1]))
    => verdict[1] = FALSE

C4_Witness ==
    /\ Classified
    /\ WholeWord(str_lower(affiliation[1]), "university")
    /\ NoCompanyTerm(affiliation[1])
    /\ HasWeakTerm(affiliation[1])
    /\ verdict[1] = FALSE

-----------------------------------------------------------------------------
(* Claims about the publication date (SpecDate)                             *)

AllDigits(s) == \A i \in 1..Len(s) : SubSeq(s, i, i) \in CharsOf(Digits)

\* YYYY-MM-DD
IsIsoDate(s) ==
    /\ Len(s) = 10
    /\ AllDigits(SubSeq(s, 1, 4)) /\ SubSeq(s, 5, 5) = "-"
    /\ AllDigits(SubSeq(s, 6, 7)) /\ SubSeq(s, 8, 8) = "-"
    /\ AllDigits(SubSeq(s, 9, 10))

\* C6: whatever the Year, Month, Day and MedlineDate values of the record,
\* the extracted publication date is "Unknown" or has the form YYYY-MM-DD.
C6_IsoDateOrUnknown ==
    pub_date # "none" => (pub_date = "Unknown" \/ IsIsoDate(pub_date))

\* the mapping under key k of d, the empty mapping when there is none
Sub(d, k) == IF IsDict(d) /\ Has(d, k) /\ IsDict(d[k]) THEN d[k] ELSE EmptyDict

ArticleOf(art) == Sub(Sub(art, "MedlineCitation"), "Article")

\* the first entry of ArticleDate, the journal's PubDate, DateCreated
ArticleDateOf(art) ==
    IF Has(ArticleOf(art), "ArticleDate") /\ Len(ArticleOf(art)["ArticleDate"]) > 0
         /\ IsDict(ArticleOf(art)["ArticleDate"][1])
    THEN ArticleOf(art)["ArticleDate"][1]
    ELSE EmptyDict

JournalPubDateOf(art) == Sub(Sub(ArticleOf(art), "Journal"), "PubDate")

DateCreatedOf(art) == Sub(Sub(art, "MedlineCitation"), "DateCreated")

\* the year a PubDate carries: its Year, or the first four characters of its
\* MedlineDate when it has the MedlineDate form (no Month)
PubDateYear(d) ==
    IF ~Has(d, "Month") /\ Has(d, "MedlineDate") /\ Len(d["MedlineDate"]) >= 4
    THEN SubSeq(d["MedlineDate"], 1, 4)
    ELSE GetStr(d, "Year", "")

\* year-month-day of a date mapping, month and day defaulting to 01
BuiltFrom(d) ==
    d["Year"] \o "-" \o zfill2(GetStr(d, "Month", "01")) \o "-" \o zfill2(GetStr(d, "Day", "01"))

StartsWith(s, p) == Len(s) >= Len(p) /\ SubSeq(s, 1, Len(p)) = p
EndsWith(s, p) == Len(s) >= Len(p) /\ SubSeq(s, Len(s) - Len(p) + 1, Len(s)) = p

\* pub_date is the date of the first source, in the order ArticleDate,
\* journal PubDate, DateCreated, that carries a year, "Unknown" if none does
FromFirstSourceWithYear(art, date) ==
    IF GetStr(ArticleDateOf(art), "Year", "") # ""
    THEN date = BuiltFrom(ArticleDateOf(art))
    ELSE IF PubDateYear(JournalPubDateOf(art)) # ""
    THEN /\ date # "Unknown"
         /\ StartsWith(date, PubDateYear(JournalPubDateOf(art)) \o "-")
         /\ EndsWith(date, "-" \o zfill2(GetStr(JournalPubDateOf(art), "Day", "01")))
    ELSE IF GetStr(DateCreatedOf(art), "Year", "") # ""
    THEN date = BuiltFrom(DateCreatedOf(art))
    ELSE date = "Unknown"

\* C11: the publication date is built from the first of ArticleDate, journal
\* PubDate (its MedlineDate form included) and DateCreated that carries a
\* year, and is "Unknown" only when none does; a record whose DateCreated has
\* a year never yields "Unknown".
C11_FirstSourceWithYear ==
    pub_date # "none" =>
        /\ FromFirstSourceWithYear(article, pub_date)
        /\ GetStr(DateCreatedOf(article), "Year", "") # "" => pub_date # "Unknown"

\* the journal step ends the extraction with an exception the inner handler
\* does not catch
JournalStepRaises(art) ==
    JournalStep(ArticleOf(art), ArticleDateStep(ArticleOf(art))).raised

\* The same on the records whose journal step does not raise.
FirstSourceWithYearUnlessRaised ==
    (pub_date # "none" /\ ~JournalStepRaises(article)) =>
        /\ FromFirstSourceWithYear(article, pub_date)
        /\ GetStr(DateCreatedOf(article), "Year", "") # "" => pub_date # "Unknown"

-----------------------------------------------------------------------------
(* Claims about the record parser (SpecAuthors, SpecParse)                  *)

ColumnSet == {Columns[k] : k \in 1..Len(Columns)}

\* an author with at least one name part
Named(author) ==
    IsDict(author) /\ (GetStr(author, "LastName", "") # "" \/ GetStr(author, "ForeName", "") # "")

\* the affiliation strings of an author that the classifier calls a company
ClassifiedCompany(author) ==
    IF ~Has(author, "AffiliationInfo") THEN {}
    ELSE {s \in {GetStr(author["AffiliationInfo"][k], "Affiliation", "") :
                    k \in {k \in 1..Len(author["AffiliationInfo"]) :
                              IsDict(author["AffiliationInfo"][k])}} :
             is_company_affiliation(s)}

EmailMarkers == {".edu", ".ac.", "university", "college", "institute", "school", "gov"}

\* an identifier value with an "@" and none of the academic markers
IsContactEmail(id) ==
    Contains(id, "@") /\ \A m \in EmailMarkers : ~Contains(str_lower(id), m)

HasContactEmail(author) ==
    \E k \in 1..Len(IdentifiersOf(author)) : IsContactEmail(IdentifiersOf(author)[k])

NonAcademic(author) == ClassifiedCompany(author) # {} \/ HasContactEmail(author)

\* "Last, First", trimmed of the comma when a part is empty
RenderedName(author) ==
    strip(GetStr(author, "LastName", "") \o ", " \o GetStr(author, "ForeName", ""))

RECURSIVE ExpectedNames(_)
ExpectedNames(authors) ==
    IF authors = << >> THEN << >>
    ELSE (IF Named(Head(authors)) /\ NonAcademic(Head(authors))
          THEN <<RenderedName(Head(authors))>> ELSE << >>)
         \o ExpectedNames(Tail(authors))

Extracted == authors_info # << >>

\* C7: a named author is in the non-academic author list exactly when one of
\* the author's affiliations is company-classified or the author carries a
\* non-academic identifier with an "@"; the company-affiliation list holds,
\* each once, exactly the company-classified affiliations of the named authors.
C7_AuthorsAndAffiliations ==
    Extracted =>
        LET info == authors_info[1]
            authors == AuthorListOf(article)
            named == {k \in 1..Len(authors) : Named(authors[k])}
        IN /\ Len(info.non_academic_authors)
                = Cardinality({k \in named : NonAcademic(authors[k])})
           /\ info.non_academic_authors = ExpectedNames(authors)
           /\ {info.company_affiliations[k] : k \in 1..Len(info.company_affiliations)}
                = UNION {ClassifiedCompany(authors[k]) : k \in named}
           /\ \A i, j \in 1..Len(info.company_affiliations) :
                i # j => info.company_affiliations[i] # info.company_affiliations[j]

Parsed == row # << >>

\* the record's primary ID, when the record carries one
HasPmid(art) ==
    /\ Has(art, "MedlineCitation") /\ IsDict(art["MedlineCitation"])
    /\ Has(art["MedlineCitation"], "PMID")

\* the record's title, when the nested lookup reaches one
HasTitle(art) ==
    /\ Has(art, "MedlineCitation") /\ IsDict(art["MedlineCitation"])
    /\ Has(art["MedlineCitation"], "Article")
    /\ IsDict(art["MedlineCitation"]["Article"])
    /\ Has(art["MedlineCitation"]["Article"], "ArticleTitle")

\* C5: parse_paper returns a row with all six fields for every record, also
\* for a record with missing or wrongly shaped nested fields, and a field
\* whose extraction failed holds its default ("Unknown" for identifier and
\* title, "" for author names, company affiliations and email).
C5_SixFieldsWithDefaults ==
    Parsed =>
        /\ DOMAIN row[1] = ColumnSet
        /\ ~HasPmid(article) => row[1]["PubmedID"] = "Unknown"
        /\ ~HasTitle(article) => row[1]["Title"] = "Unknown"
        /\ AuthorListOf(article) = << >> =>
              /\ row[1]["Non-academic Author(s)"] = ""
              /\ row[1]["Company Affiliation(s)"] = ""
              /\ row[1]["Corresponding Author Email"] = ""

\* the email field of a row is empty or a contact email of a named author
EmailFieldOk(art, r) ==
    \/ r["Corresponding Author Email"] = ""
    \/ \E k \in 1..Len(AuthorListOf(art)) :
          /\ Named(AuthorListOf(art)[k])
          /\ \E i \in 1..Len(IdentifiersOf(AuthorListOf(art)[k])) :
                /\ IdentifiersOf(AuthorListOf(art)[k])[i] = r["Corresponding Author Email"]
                /\ IsContactEmail(r["Corresponding Author Email"])

\* C9: in every row parse_paper produces, the 'Corresponding Author Email'
\* field is the empty string or an identifier value of a named author that
\* contains "@" and none of the academic markers.
C9_EmailField ==
    Parsed =>
        /\ "Corresponding Author Email" \in DOMAIN row[1]
        /\ EmailFieldOk(article, row[1])

\* The same on the rows that carry the field (every row but the {} of line 317).
EmailFieldOkWherePresent ==
    (Parsed /\ "Corresponding Author Email" \in DOMAIN row[1])
    => EmailFieldOk(article, row[1])

\* C10: a second parse of the same record, in the same process or in a later
\* run, yields the identical row, the order of the company affiliations included.
C10_SameRowAgain ==
    row_again # << >> => row_again = row

-----------------------------------------------------------------------------
(* Claims about the run (Spec)                                              *)

\* the parsed rows of all fetched records, one per record in fetch order
AllRows == [k \in 1..Len(papers_data) |-> parse_paper(papers_data[k], hash_seed)]

HasNonAcademicAuthor(r) ==
    "Non-academic Author(s)" \in DOMAIN r /\ r["Non-academic Author(s)"] # ""

WriterInvoked == handed # << >>

\* the data rows of the output: the file when one is named, else standard output
OutputRows == IF filename = "" THEN stdout ELSE out_file.rows

NoRowNonAcademic ==
    /\ Len(papers_data) >= 1
    /\ \A k \in 1..Len(papers_data) : ~HasNonAcademicAuthor(AllRows[k])

\* C1: when the fetch returned at least one record and no parsed row has a
\* non-academic author, the writer is handed the parsed rows of all fetched
\* records, one per record in fetch order, and the output of the completed
\* run has a data row for each.
C1_FallbackEmitsAll ==
    (WriterInvoked /\ NoRowNonAcademic) =>
        /\ handed[1] = AllRows
        /\ Len(handed[1]) >= 1
        /\ exit_status = 0 =>
              /\ Len(OutputRows) = Len(papers_data)
              /\ filename # "" => out_file.exists

C1_Witness ==
    /\ pc = "done" /\ exit_status = 0
    /\ NoRowNonAcademic
    /\ Len(papers_data) = MaxRecords
    /\ Len(OutputRows) = MaxRecords

\* C2: when some fetched record parses to a row with a non-academic author,
\* the writer is handed exactly the parsed rows with a non-academic author,
\* in fetch order.
C2_FilterKeepsNonAcademic ==
    (WriterInvoked /\ \E k \in 1..Len(papers_data) : HasNonAcademicAuthor(AllRows[k])) =>
        /\ handed[1] = SelectSeq(AllRows, HasNonAcademicAuthor)
        /\ \A k \in 1..Len(handed[1]) : HasNonAcademicAuthor(handed[1][k])

C2_Witness ==
    /\ WriterInvoked
    /\ Len(papers_data) = 2
    /\ HasNonAcademicAuthor(AllRows[1]) /\ ~HasNonAcademicAuthor(AllRows[2])
    /\ Len(handed[1]) = 1

\* the Entrez functions called so far, in order
CallNames == [k \in 1..Len(calls) |-> calls[k].fn]

\* C8: a run in which the search, the fetch or a later step raised ends with
\* exit status 1 and without an output file, and the writer is invoked only
\* after the search, the fetch and the parsing of every record.
C8_FailedRunNoFile ==
    /\ exit_status = 1 => ~out_file.exists
    /\ WriterInvoked =>
          /\ CallNames = <<"esearch", "efetch">>
          /\ loop_i > Len(papers_data)

\* The same for the exceptions raised before the writer is invoked.
FailedBeforeWriterNoFile ==
    /\ (exit_status = 1 /\ ~WriterInvoked) => ~out_file.exists
    /\ WriterInvoked =>
          /\ CallNames = <<"esearch", "efetch">>
          /\ loop_i > Len(papers_data)

-----------------------------------------------------------------------------
(* Claims about the network calls of a run (Spec)                           *)

RunEnded == pc = "done"

\* every identifier of ids occurs in the id argument of the call
IdsCovered(call, ids) == \A k \in 1..Len(ids) : Contains(call.arg, ids[k])

\* the fallback path was taken: records were fetched, none has a row with a
\* non-academic author, and the writer was handed the rows
FallbackTaken == WriterInvoked /\ NoRowNonAcademic

\* C12 as stated: every run performs exactly two network calls, one search
\* call followed by one batch-fetch call covering all returned identifiers;
\* neither is repeated after a failure or in the fallback path.
C12_ExactlyTwoCalls ==
    /\ Len(calls) <= 2
    /\ RunEnded =>
          /\ CallNames = <<"esearch", "efetch">>
          /\ IdsCovered(calls[2], pmids)

\* C12 amended: a run performs at most two network calls, the search call
\* first; the batch-fetch call follows it, once and covering all returned
\* identifiers, exactly when the search returned at least one identifier,
\* and a run whose search raises or returns none ends after the search call
\* alone; no call is repeated after a failure or in the fallback path.
C12_SearchThenFetchIfAnyId ==
    /\ CallNames \in {<< >>, <<"esearch">>, <<"esearch", "efetch">>}
    /\ Len(calls) = 2 => (pmids # << >> /\ IdsCovered(calls[2], pmids))
    /\ RunEnded =>
          IF pmids # << >>
          THEN CallNames = <<"esearch", "efetch">>
          ELSE CallNames = <<"esearch">>

C12_Witness ==
    /\ RunEnded /\ exit_status = 0
    /\ FallbackTaken
    /\ Len(pmids) >= 2
    /\ CallNames = <<"esearch", "efetch">>
    /\ IdsCovered(calls[2], pmids)

\* a run that ended after the search call alone
OneCallRun == RunEnded /\ CallNames = <<"esearch">>

=============================================================================
